---- MODULE Spec2Model ----
(***************************************************************************)
(* A model of seleniumwire/server.py: MitmProxy (construction, serving,    *)
(* shutdown), its upstream proxy resolver _get_upstream_proxy_args, and    *)
(* the SendToLogger addon.  Python dicts are functions from strings,       *)
(* Python strings are TLA+ strings, an exception is an error name.         *)
(***************************************************************************)
EXTENDS Integers, Sequences, FiniteSets, TLC

VARIABLES
    options,        \* the options dict handed to MitmProxy.__init__
    proxy_config,   \* what get_upstream_proxy(self.options) returns
    pc,             \* the position of the object in its life
    error,          \* the exception that left __init__, or "none"
    storage,        \* self.storage: "none" or "created"
    cleanupCalls,   \* number of calls of self.storage.cleanup()
    scopes,         \* self.scopes
    addons,         \* the addons registered with self._master, in order
    mitmproxy_opts, \* the engine options after mitmproxy_opts.update(...)
    upstream_args,  \* what _get_upstream_proxy_args returned (or Raised)
    server,         \* self._master.server: "none" or "created"
    calls,          \* the calls made to the collaborators, in order
    running,        \* the event loop is running (serve_forever)
    shutdownCalls,  \* number of calls of shutdown()
    shutdownRaised, \* number of those calls that raised
    flow,           \* the flow the pipeline is handling
    flowsSeen,      \* number of flows that arrived
    stored,         \* number of flows that reached STORED
    logCalls,       \* number of calls of SendToLogger.log
    logEntry,       \* the entry of the last call of SendToLogger.log
    forwarded,      \* the records the host logger received, in order
    logRaised       \* the exception the last log() raised, or "none"

vars == <<options, proxy_config, pc, error, storage, cleanupCalls, scopes,
          addons, mitmproxy_opts, upstream_args, server, calls, running,
          shutdownCalls, shutdownRaised, flow, flowsSeen, stored,
          logCalls, logEntry, forwarded, logRaised>>

lifeVars == <<running, shutdownCalls, shutdownRaised, flow, flowsSeen, stored>>
logVars == <<logCalls, logEntry, forwarded, logRaised>>
inputVars == <<options, proxy_config>>

(***************************************************************************)
(* Bounds of the model.                                                    *)
(***************************************************************************)
MaxShutdowns == 2
MaxFlows == 2
MaxLogs == 2

(***************************************************************************)
(* Python values and dict operations.                                      *)
(***************************************************************************)
EmptyDict == <<>>

\* dict.get(key, default)
DictGet(d, key, default) == IF key \in DOMAIN d THEN d[key] ELSE default

\* dict.get(key) is truthy: the key is present (no descriptor is falsy)
HasConf(d, key) == key \in DOMAIN d

\* dict.get(key) is truthy for a string value: present and not empty
HasText(d, key) == key \in DOMAIN d /\ d[key] # ""

\* k.startswith(prefix)
StartsWith(k, prefix) ==
    Len(k) >= Len(prefix) /\ SubSeq(k, 1, Len(prefix)) = prefix

\* k[5:]
StripPrefix(k) == SubSeq(k, 6, Len(k))

\* s.replace(old, new): every non-overlapping occurrence, left to right
RECURSIVE Replace(_, _, _)
Replace(s, old, new) ==
    IF Len(s) < Len(old) THEN s
    ELSE IF SubSeq(s, 1, Len(old)) = old
         THEN new \o Replace(SubSeq(s, Len(old) + 1, Len(s)), old, new)
         ELSE SubSeq(s, 1, 1) \o Replace(SubSeq(s, 2, Len(s)), old, new)

(***************************************************************************)
(* Module constants of server.py.                                          *)
(***************************************************************************)
DEFAULT_SSL_INSECURE == TRUE
DEFAULT_STREAM_WEBSOCKETS == TRUE
DEFAULT_SUPPRESS_CONNECTION_ERRORS == TRUE

\* host and port handed to __init__, and the storage's home_dir
ListenAddress == [host |-> "127.0.0.1", port |-> "0"]
HomeDir == "/tmp/.seleniumwire"

(***************************************************************************)
(* The upstream proxy resolver, MitmProxy._get_upstream_proxy_args.        *)
(* The result is [raised |-> BOOLEAN, args |-> dict].                      *)
(***************************************************************************)
Conf(scheme, username, password, hostport) ==
    [scheme |-> scheme, username |-> username,
     password |-> password, hostport |-> hostport]

\* the body from `args = {}` on, for a chosen descriptor
UpstreamArgsOf(conf, cfg) ==
    ("mode" :> ("upstream:" \o conf.scheme \o "://" \o conf.hostport))
    @@ (IF conf.username # ""
        THEN "upstream_auth" :> (conf.username \o ":" \o conf.password)
        ELSE EmptyDict)
    @@ (IF HasText(cfg, "custom_authorization")
        THEN "upstream_custom_auth" :> cfg["custom_authorization"]
        ELSE EmptyDict)
    @@ (IF HasText(cfg, "no_proxy")
        THEN "no_proxy" :> cfg["no_proxy"]
        ELSE EmptyDict)

\* a slip: the hostport comparison is left out
GetUpstreamProxyArgs_NoHostportCheck(cfg) ==
    IF HasConf(cfg, "https")
    THEN [raised |-> FALSE, args |-> UpstreamArgsOf(cfg["https"], cfg)]
    ELSE IF HasConf(cfg, "http")
    THEN [raised |-> FALSE, args |-> UpstreamArgsOf(cfg["http"], cfg)]
    ELSE [raised |-> FALSE, args |-> EmptyDict]

\* a slip: with both descriptors the HTTP one is chosen
GetUpstreamProxyArgs_PreferHttp(cfg) ==
    IF HasConf(cfg, "http") /\ HasConf(cfg, "https")
       /\ cfg["http"].hostport # cfg["https"].hostport
    THEN [raised |-> TRUE, args |-> EmptyDict]
    ELSE IF HasConf(cfg, "http")
    THEN [raised |-> FALSE, args |-> UpstreamArgsOf(cfg["http"], cfg)]
    ELSE IF HasConf(cfg, "https")
    THEN [raised |-> FALSE, args |-> UpstreamArgsOf(cfg["https"], cfg)]
    ELSE [raised |-> FALSE, args |-> EmptyDict]

GetUpstreamProxyArgs(cfg) ==
    IF HasConf(cfg, "http") /\ HasConf(cfg, "https")
    THEN IF cfg["http"].hostport # cfg["https"].hostport
         THEN [raised |-> TRUE, args |-> EmptyDict]
         ELSE [raised |-> FALSE, args |-> UpstreamArgsOf(cfg["https"], cfg)]
    ELSE IF HasConf(cfg, "http")
    THEN [raised |-> FALSE, args |-> UpstreamArgsOf(cfg["http"], cfg)]
    ELSE IF HasConf(cfg, "https")
    THEN [raised |-> FALSE, args |-> UpstreamArgsOf(cfg["https"], cfg)]
    ELSE [raised |-> FALSE, args |-> EmptyDict]

(***************************************************************************)
(* The keyword arguments of mitmproxy_opts.update(...) in __init__.        *)
(***************************************************************************)
\* the keywords written out in the call
ExplicitKwargs(opts) ==
    ("confdir" :> HomeDir)
    @@ ("listen_host" :> ListenAddress.host)
    @@ ("listen_port" :> ListenAddress.port)
    @@ ("ssl_insecure" :> DictGet(opts, "verify_ssl", DEFAULT_SSL_INSECURE))
    @@ ("stream_websockets" :> DEFAULT_STREAM_WEBSOCKETS)
    @@ ("suppress_connection_errors" :>
           DictGet(opts, "suppress_connection_errors",
                   DEFAULT_SUPPRESS_CONNECTION_ERRORS))

\* {k[5:]: v for k, v in options.items() if k.startswith('mitm_')}
PassThroughKwargs(opts) ==
    LET keys == {k \in DOMAIN opts : StartsWith(k, "mitm_")}
    IN  [n \in {StripPrefix(k) : k \in keys} |->
            opts[CHOOSE k \in keys : StripPrefix(k) = n]]

\* A call f(a=.., **d1, **d2) raises TypeError when a keyword is given twice.
DuplicateKeywords(explicit, upstream, passed) ==
    ((DOMAIN explicit) \cap (DOMAIN upstream))
    \cup ((DOMAIN explicit) \cap (DOMAIN passed))
    \cup ((DOMAIN upstream) \cap (DOMAIN passed))

(***************************************************************************)
(* Inputs.                                                                 *)
(***************************************************************************)
\* a dict with the key absent, or present with one of the values
Optional(key, values) == {EmptyDict} \cup {key :> v : v \in values}

Schemes == {"http", "https"}
Usernames == {"", "u"}
Passwords == {"p", "q"}
Hostports == {"proxy.local:8080", "proxy.local:9090"}

Descriptors ==
    {Conf(s, u, p, h) : s \in Schemes, u \in Usernames,
                        p \in Passwords, h \in Hostports}

\* every dict get_upstream_proxy can return over these descriptors
ProxyConfigs ==
    {a @@ b @@ c @@ d :
        a \in Optional("http", Descriptors),
        b \in Optional("https", Descriptors),
        c \in Optional("custom_authorization", {"", "Bearer t"}),
        d \in Optional("no_proxy", {"localhost"})}

\* a few descriptors: one per scheme on one hostport, one on another
FewDescriptors ==
    {Conf("http", "u", "p", "proxy.local:8080"),
     Conf("https", "", "q", "proxy.local:8080"),
     Conf("https", "u", "p", "proxy.local:9090")}

FewProxyConfigs ==
    {a @@ b :
        a \in Optional("http", FewDescriptors),
        b \in Optional("https", FewDescriptors)}

PassThroughChoices ==
    {EmptyDict,
     "mitm_ssl_insecure" :> FALSE,
     "mitm_mode" :> "regular",
     "mitm_http2" :> FALSE}

OptionChoices ==
    {a @@ b @@ c @@ d :
        a \in Optional("verify_ssl", BOOLEAN),
        b \in Optional("suppress_connection_errors", {FALSE}),
        c \in Optional("disable_capture", {TRUE}),
        d \in PassThroughChoices}

FewOptionChoices ==
    {a @@ c :
        a \in Optional("verify_ssl", {TRUE}),
        c \in Optional("disable_capture", BOOLEAN)}

(***************************************************************************)
(* States.                                                                 *)
(***************************************************************************)
NoFlow == [state |-> "NONE"]
NotCalled == [called |-> FALSE]
NoEntry == [level |-> "", msg |-> ""]

InitWith(optionSet, configSet, start) ==
    /\ options \in optionSet
    /\ proxy_config \in configSet
    /\ pc = start
    /\ error = "none"
    /\ storage = "none"
    /\ cleanupCalls = 0
    /\ scopes = <<>>
    /\ addons = <<>>
    /\ mitmproxy_opts = EmptyDict
    /\ upstream_args = NotCalled
    /\ server = "none"
    /\ calls = <<>>
    /\ running = FALSE
    /\ shutdownCalls = 0
    /\ shutdownRaised = 0
    /\ flow = NoFlow
    /\ flowsSeen = 0
    /\ stored = 0
    /\ logCalls = 0
    /\ logEntry = NoEntry
    /\ forwarded = <<>>
    /\ logRaised = "none"

\* an exception leaves __init__: no object is returned
Fail(name) ==
    /\ pc' = "failed"
    /\ error' = name

(***************************************************************************)
(* MitmProxy.__init__, statement by statement.  Nothing else can run       *)
(* before it returns.                                                      *)
(***************************************************************************)
\* self.storage = storage.create(**self._get_storage_args())
CreateStorage ==
    /\ pc = "create_storage"
    /\ calls' = Append(calls, "storage.create")
    /\ \E ok \in BOOLEAN :
        IF ok
        THEN /\ storage' = "created"
             /\ pc' = "extract_cert"
             /\ UNCHANGED error
        ELSE /\ Fail("StorageError")
             /\ UNCHANGED storage
    /\ UNCHANGED <<inputVars, cleanupCalls, scopes, addons, mitmproxy_opts,
                   upstream_args, server, lifeVars, logVars>>

\* extract_cert_and_key(self.storage.home_dir)
ExtractCert ==
    /\ pc = "extract_cert"
    /\ calls' = Append(calls, "extract_cert_and_key")
    /\ \E ok \in BOOLEAN :
        IF ok
        THEN /\ pc' = "init_fields"
             /\ UNCHANGED error
        ELSE Fail("ExtractError")
    /\ UNCHANGED <<inputVars, storage, cleanupCalls, scopes, addons,
                   mitmproxy_opts, upstream_args, server, lifeVars, logVars>>

\* self.modifier, self.scopes = [], the interceptors, the event loop, Options()
InitFields ==
    /\ pc = "init_fields"
    /\ scopes' = <<>>
    /\ pc' = "add_addons"
    /\ UNCHANGED <<inputVars, error, storage, cleanupCalls, addons,
                   mitmproxy_opts, upstream_args, server, calls, lifeVars,
                   logVars>>

\* self._master = Master(...); the three self._master.addons.add(...) calls
AddAddons ==
    /\ pc = "add_addons"
    /\ addons' = addons \o <<"default_addons", "SendToLogger",
                             "InterceptRequestHandler">>
    /\ calls' = calls \o <<"Master", "addons.add", "addons.add", "addons.add">>
    /\ pc' = "update_opts"
    /\ UNCHANGED <<inputVars, error, storage, cleanupCalls, scopes,
                   mitmproxy_opts, upstream_args, server, lifeVars, logVars>>

\* mitmproxy_opts.update(...): the keywords are evaluated in order, so the
\* resolver's ValueError comes before the TypeError of a repeated keyword
UpdateOpts ==
    /\ pc = "update_opts"
    /\ LET explicit == ExplicitKwargs(options)
           resolved == GetUpstreamProxyArgs(proxy_config)
           passed == PassThroughKwargs(options)
       IN  IF resolved.raised
           THEN /\ Fail("ValueError")
                /\ upstream_args' = [called |-> TRUE, raised |-> TRUE]
                /\ UNCHANGED <<mitmproxy_opts, calls>>
           ELSE /\ upstream_args' = [called |-> TRUE, raised |-> FALSE,
                                     args |-> resolved.args]
                /\ IF DuplicateKeywords(explicit, resolved.args, passed) # {}
                   THEN /\ Fail("TypeError")
                        /\ UNCHANGED <<mitmproxy_opts, calls>>
                   ELSE /\ mitmproxy_opts' = explicit @@ resolved.args @@ passed
                        /\ calls' = Append(calls, "Options.update")
                        /\ pc' = "create_server"
                        /\ UNCHANGED error
    /\ UNCHANGED <<inputVars, storage, cleanupCalls, scopes, addons, server,
                   lifeVars, logVars>>

\* self._master.server = ProxyServer(ProxyConfig(mitmproxy_opts))
CreateServer ==
    /\ pc = "create_server"
    /\ calls' = Append(calls, "ProxyServer")
    /\ \E ok \in BOOLEAN :
        IF ok
        THEN /\ server' = "created"
             /\ pc' = "disable_capture"
             /\ UNCHANGED error
        ELSE /\ Fail("ServerException")
             /\ UNCHANGED server
    /\ UNCHANGED <<inputVars, storage, cleanupCalls, scopes, addons,
                   mitmproxy_opts, upstream_args, lifeVars, logVars>>

\* if options.get('disable_capture', False): self.scopes = ['$^']
DisableCapture ==
    /\ pc = "disable_capture"
    /\ scopes' = IF DictGet(options, "disable_capture", FALSE)
                 THEN <<"$^">> ELSE scopes
    /\ pc' = "constructed"
    /\ UNCHANGED <<inputVars, error, storage, cleanupCalls, addons,
                   mitmproxy_opts, upstream_args, server, calls, lifeVars,
                   logVars>>

Construct ==
    \/ CreateStorage
    \/ ExtractCert
    \/ InitFields
    \/ AddAddons
    \/ UpdateOpts
    \/ CreateServer
    \/ DisableCapture

InitConstruct == InitWith(OptionChoices, ProxyConfigs, "create_storage")
SpecConstruct == InitConstruct /\ [][Construct]_vars

(***************************************************************************)
(* The operations of a constructed MitmProxy.                              *)
(***************************************************************************)
constructVars == <<pc, error, storage, scopes, addons, mitmproxy_opts,
                   upstream_args, server>>

\* serve_forever(): blocks its caller while the loop runs
ServeForever ==
    /\ pc = "constructed"
    /\ ~running
    /\ running' = TRUE
    /\ calls' = Append(calls, "master.run_loop")
    /\ UNCHANGED <<inputVars, constructVars, cleanupCalls, shutdownCalls,
                   shutdownRaised, flow, flowsSeen, stored, logVars>>

\* shutdown(): self._master.shutdown() returns or raises; only when it
\* returns is self.storage.cleanup() reached
Shutdown ==
    /\ pc = "constructed"
    /\ shutdownCalls < MaxShutdowns
    /\ shutdownCalls' = shutdownCalls + 1
    /\ \E stopped \in BOOLEAN :
        IF stopped
        THEN /\ calls' = calls \o <<"master.shutdown", "storage.cleanup">>
             /\ cleanupCalls' = cleanupCalls + 1
             /\ running' = FALSE
             /\ UNCHANGED shutdownRaised
        ELSE /\ calls' = Append(calls, "master.shutdown raised")
             /\ shutdownRaised' = shutdownRaised + 1
             /\ UNCHANGED <<cleanupCalls, running>>
    /\ UNCHANGED <<inputVars, constructVars, flow, flowsSeen, stored, logVars>>

\* the caller assigns proxy.scopes
ScopeChoices == {<<>>, <<"$^">>, <<".*/api/.*">>}

SetScopes ==
    /\ pc = "constructed"
    /\ \E s \in ScopeChoices :
        /\ s # scopes
        /\ scopes' = s
    /\ UNCHANGED <<inputVars, pc, error, storage, cleanupCalls, addons,
                   mitmproxy_opts, upstream_args, server, calls, lifeVars,
                   logVars>>

(***************************************************************************)
(* The interception pipeline (InterceptRequestHandler), one flow at a      *)
(* time on the event loop:                                                 *)
(* ARRIVED -> SCOPE-CHECKED -> BYPASSED | MODIFIED -> INTERCEPTED -> STORED *)
(***************************************************************************)
Urls == {"http://site/api/items", "http://site/logo.png"}

\* re.search(pattern, url) for the patterns and urls above
Matches(pattern, url) ==
    CASE pattern = "$^" -> FALSE
      [] pattern = ".*/api/.*" -> url = "http://site/api/items"
      [] OTHER -> FALSE

\* an empty scope list captures everything
InScope(url, scopeList) ==
    \/ scopeList = <<>>
    \/ \E i \in 1..Len(scopeList) : Matches(scopeList[i], url)

Terminal(f) == f.state \in {"NONE", "BYPASSED", "STORED"}

pipelineFrame == <<inputVars, constructVars, cleanupCalls, calls, running,
                   shutdownCalls, shutdownRaised, logVars>>

FlowArrive ==
    /\ pc = "constructed"
    /\ running
    /\ Terminal(flow)
    /\ flowsSeen < MaxFlows
    /\ \E url \in Urls : flow' = [state |-> "ARRIVED", url |-> url]
    /\ flowsSeen' = flowsSeen + 1
    /\ UNCHANGED <<pipelineFrame, stored>>

FlowScopeCheck ==
    /\ running
    /\ flow.state = "ARRIVED"
    /\ flow' = [state |-> "SCOPE-CHECKED", url |-> flow.url,
                in_scope |-> InScope(flow.url, scopes)]
    /\ UNCHANGED <<pipelineFrame, flowsSeen, stored>>

FlowBypass ==
    /\ running
    /\ flow.state = "SCOPE-CHECKED"
    /\ ~flow.in_scope
    /\ flow' = [state |-> "BYPASSED", url |-> flow.url]
    /\ UNCHANGED <<pipelineFrame, flowsSeen, stored>>

FlowModify ==
    /\ running
    /\ flow.state = "SCOPE-CHECKED"
    /\ flow.in_scope
    /\ flow' = [state |-> "MODIFIED", url |-> flow.url]
    /\ UNCHANGED <<pipelineFrame, flowsSeen, stored>>

FlowIntercept ==
    /\ running
    /\ flow.state = "MODIFIED"
    /\ flow' = [state |-> "INTERCEPTED", url |-> flow.url]
    /\ UNCHANGED <<pipelineFrame, flowsSeen, stored>>

FlowStore ==
    /\ running
    /\ flow.state = "INTERCEPTED"
    /\ flow' = [state |-> "STORED", url |-> flow.url]
    /\ stored' = stored + 1
    /\ UNCHANGED <<pipelineFrame, flowsSeen>>

Next ==
    \/ Construct
    \/ ServeForever
    \/ Shutdown
    \/ SetScopes
    \/ FlowArrive
    \/ FlowScopeCheck
    \/ FlowBypass
    \/ FlowModify
    \/ FlowIntercept
    \/ FlowStore

Init == InitWith(FewOptionChoices, FewProxyConfigs, "create_storage")
Spec == Init /\ [][Next]_vars

(***************************************************************************)
(* The resolver on its own, over every pair of descriptors.                *)
(***************************************************************************)
Resolve ==
    /\ pc = "resolve"
    /\ LET resolved == GetUpstreamProxyArgs(proxy_config)
       IN  upstream_args' =
               IF resolved.raised
               THEN [called |-> TRUE, raised |-> TRUE]
               ELSE [called |-> TRUE, raised |-> FALSE, args |-> resolved.args]
    /\ pc' = "resolved"
    /\ UNCHANGED <<inputVars, error, storage, cleanupCalls, scopes, addons,
                   mitmproxy_opts, server, calls, lifeVars, logVars>>

InitResolver == InitWith({EmptyDict}, ProxyConfigs, "resolve")
SpecResolver == InitResolver /\ [][Resolve]_vars

(***************************************************************************)
(* The Log Bridge, SendToLogger.log.                                       *)
(***************************************************************************)
\* what getattr(logger, name) finds on a logging.Logger
HostLogger(name) ==
    CASE name \in {"debug", "info", "warning", "error", "critical"} ->
             [kind |-> "severity", severity |-> name]
      [] name = "warn" -> [kind |-> "severity", severity |-> "warning"]
      [] name = "fatal" -> [kind |-> "severity", severity |-> "critical"]
      [] name = "exception" -> [kind |-> "severity", severity |-> "error"]
      [] name \in {"log", "addHandler"} ->
             [kind |-> "method", raises |-> "TypeError"]
      [] name = "setLevel" -> [kind |-> "method", raises |-> "ValueError"]
      [] name \in {"name", "level", "parent", "propagate", "handlers",
                   "disabled", "manager", "root"} -> [kind |-> "value"]
      [] OTHER -> [kind |-> "absent"]

\* getattr(logger, entry.level.replace('warn', 'warning'), logger.info)(msg)
\* gives [raised, records]: the exception and what the host logger received
SendToLoggerLog(entry) ==
    LET attr == HostLogger(Replace(entry.level, "warn", "warning"))
    IN  CASE attr.kind = "absent" ->
                 [raised |-> "none",
                  records |-> <<[severity |-> "info", msg |-> entry.msg]>>]
          [] attr.kind = "severity" ->
                 [raised |-> "none",
                  records |-> <<[severity |-> attr.severity,
                                 msg |-> entry.msg]>>]
          [] attr.kind = "method" ->
                 [raised |-> attr.raises, records |-> <<>>]
          [] attr.kind = "value" ->
                 [raised |-> "TypeError", records |-> <<>>]

Levels == {"debug", "info", "warn", "error", "alert", "warning", "critical",
           "name", "disabled", "setLevel", "log", "exception"}
Messages == {"client connect", "server disconnect"}

Log ==
    /\ pc = "logging"
    /\ logCalls < MaxLogs
    /\ \E level \in Levels, msg \in Messages :
        LET entry == [level |-> level, msg |-> msg]
            out == SendToLoggerLog(entry)
        IN  /\ logEntry' = entry
            /\ forwarded' = forwarded \o out.records
            /\ logRaised' = out.raised
    /\ logCalls' = logCalls + 1
    /\ UNCHANGED <<inputVars, constructVars, cleanupCalls, calls, lifeVars>>

InitLog == InitWith({EmptyDict}, {EmptyDict}, "logging")
SpecLog == InitLog /\ [][Log]_vars

(***************************************************************************)
(* Properties.                                                             *)
(***************************************************************************)
\* both descriptors are present and their hostports differ
Conflict ==
    /\ HasConf(proxy_config, "http")
    /\ HasConf(proxy_config, "https")
    /\ proxy_config["http"].hostport # proxy_config["https"].hostport

Called(name) == \E i \in 1..Len(calls) : calls[i] = name

\* C1: with both upstream descriptors present and different hostports,
\* __init__ never returns an object and never creates the proxy server, and
\* once the engine options are being built it has failed with the resolver's
\* configuration error (ValueError).
C1_ConflictFailsConstruction ==
    Conflict =>
        /\ pc \notin {"create_server", "disable_capture", "constructed"}
        /\ server = "none"
        /\ ~Called("ProxyServer")
        /\ upstream_args.called => (pc = "failed" /\ error = "ValueError")

C1_Witness ==
    /\ Conflict
    /\ upstream_args.called
    /\ pc = "failed"
    /\ error = "ValueError"

\* C2: after two calls of shutdown() whose engine stop succeeded, storage
\* cleanup() has been invoked exactly once.
C2_TwoShutdownsCleanOnce ==
    (shutdownCalls = 2 /\ shutdownRaised = 0) => cleanupCalls = 1

\* C3: when __init__ fails after the storage was created, storage cleanup()
\* has been called exactly once.
C3_FailedConstructCleansUp ==
    (pc = "failed" /\ storage = "created") => cleanupCalls = 1

\* the pass-through names that are also set by __init__ or by the resolver
Collisions ==
    (DOMAIN PassThroughKwargs(options))
    \cap ((DOMAIN ExplicitKwargs(options))
          \cup (IF upstream_args.called /\ ~upstream_args.raised
                THEN DOMAIN upstream_args.args ELSE {}))

\* C4: when a pass-through option has the name of an option __init__ sets,
\* building the engine options does not fail and the engine options hold the
\* pass-through value.
C4_PassThroughOverrides ==
    (upstream_args.called /\ ~upstream_args.raised /\ Collisions # {}) =>
        /\ error # "TypeError"
        /\ \A k \in Collisions :
               /\ k \in DOMAIN mitmproxy_opts
               /\ mitmproxy_opts[k] = PassThroughKwargs(options)[k]

\* C5: the engine verifies upstream TLS (ssl_insecure false) exactly when
\* verify_ssl is true; with verify_ssl false or absent ssl_insecure is true.
C5_VerifySslPolicy ==
    "ssl_insecure" \in DOMAIN mitmproxy_opts =>
        mitmproxy_opts["ssl_insecure"] = ~DictGet(options, "verify_ssl", FALSE)

\* C6: shutdown() never raises, every call of it reaches storage cleanup()
\* even when the engine stop fails, and cleanup() comes after the engine stop.
C6_ShutdownAlwaysCleans ==
    /\ shutdownRaised = 0
    /\ \A i \in 1..Len(calls) :
           /\ calls[i] = "master.shutdown raised" =>
                  (i < Len(calls) /\ calls[i + 1] = "storage.cleanup")
           /\ calls[i] = "storage.cleanup" =>
                  (i > 1 /\ calls[i - 1] \in {"master.shutdown",
                                              "master.shutdown raised"})

\* C7: when __init__ fails on conflicting upstream proxies, no addon has been
\* registered with the engine.
C7_NoAddonsOnConflict ==
    (pc = "failed" /\ error = "ValueError") => addons = <<>>

\* what the resolver must build from the chosen descriptor
BuiltFrom(args, conf) ==
    /\ "mode" \in DOMAIN args
    /\ args["mode"] = "upstream:" \o conf.scheme \o "://" \o conf.hostport
    /\ ("upstream_auth" \in DOMAIN args) <=> (conf.username # "")
    /\ conf.username # "" =>
           args["upstream_auth"] = conf.username \o ":" \o conf.password

\* C8: for descriptors that do not conflict the resolver does not fail; with
\* neither descriptor no upstream field is set (whatever custom_authorization
\* and no_proxy are); with one descriptor mode and upstream_auth come from it;
\* with both (same hostport) they come from the HTTPS descriptor; and
\* upstream_auth is set only for a non-empty username.
C8_ResolverYieldsOneTarget ==
    (pc = "resolved" /\ ~Conflict) =>
        /\ ~upstream_args.raised
        /\ LET args == upstream_args.args
               hasHttp == HasConf(proxy_config, "http")
               hasHttps == HasConf(proxy_config, "https")
           IN  /\ (~hasHttp /\ ~hasHttps) => DOMAIN args = {}
               /\ (hasHttp /\ ~hasHttps) =>
                      BuiltFrom(args, proxy_config["http"])
               /\ hasHttps => BuiltFrom(args, proxy_config["https"])

C8_Witness ==
    /\ pc = "resolved"
    /\ HasConf(proxy_config, "http")
    /\ HasConf(proxy_config, "https")
    /\ proxy_config["http"].hostport = proxy_config["https"].hostport
    /\ proxy_config["http"].scheme # proxy_config["https"].scheme
    /\ proxy_config["http"].username = ""
    /\ proxy_config["https"].username # ""
    /\ upstream_args.args["upstream_auth"] = "u:q"

\* C9: for a proxy constructed with disable_capture no flow ever reaches
\* STORED, whatever is done after construction (writes of the scope list
\* included).
C9_DisabledCaptureNeverStores ==
    DictGet(options, "disable_capture", FALSE) =>
        (stored = 0 /\ flow.state # "STORED")

\* the severity the Log Bridge is to use for an engine level name
ExpectedSeverity(level) ==
    IF level = "warn" THEN "warning"
    ELSE IF level \in {"debug", "info", "error", "critical"} THEN level
    ELSE "info"

\* C10: every call of log() forwards its message exactly once, at the
\* expected severity, and does not raise.
C10_LogBridgeForwards ==
    logCalls > 0 =>
        /\ logRaised = "none"
        /\ Len(forwarded) = logCalls
        /\ forwarded[logCalls] = [severity |-> ExpectedSeverity(logEntry.level),
                                  msg |-> logEntry.msg]

====
